---- MODULE Spec2Model ----
(***************************************************************************)
(* sqlc-qol: the two rewriting pipelines (qualify-models and add-nosec) as *)
(* one state machine.  A Run is a sequence of steps (argument check,       *)
(* target resolution or model extraction, glob, then per file: parse,      *)
(* traverse, create, format).  Strings the code splits, trims or compares  *)
(* by prefix are sequences of one-character strings; identifiers that are  *)
(* only compared for equality are TLA+ strings.                            *)
(***************************************************************************)
EXTENDS Naturals, Integers, Sequences, FiniteSets, TLC

VARIABLES
    cmd,        \* which Run is executing: "qualify-models" or "add-nosec"
    args,       \* the parameters Run was called with
    env,        \* what the process finds around it and never writes
    fs,         \* file name -> content of the target files
    pc,         \* position in Run
    ret,        \* what Run returned: "running", "nil", or the error text
    cause,      \* the error a failing step yielded and ret wraps, or ""
    modelNames, \* qualifymodels.Run: modelNames
    pkgAlias,   \* qualifymodels.Run: pkgAlias
    targetMap,  \* addnosec.Run: targetMap
    files,      \* the result of glob
    idx,        \* index in files of the file being processed
    tree,       \* the parsed tree of the file being processed
    handles,    \* output files created and not yet closed
    csvOpened,  \* the absolute paths openFile has opened
    run,        \* number of the current Run (1 = first)
    hist        \* the files at the start, then per finished Run what it
                \* returned and the files it left

vars == <<cmd, args, env, fs, pc, ret, cause, modelNames, pkgAlias, targetMap,
          files, idx, tree, handles, csvOpened, run, hist>>

----------------------------------------------------------------------------
(* Bounds of the model. *)

MaxLen     == 4   \* longest inline target list / CSV content, in characters
MaxPathLen == 5   \* longest csvPath, in characters
MaxItems   == 2   \* identifier-bearing items per query file
MaxChain   == 2   \* longest dotted chain a.b.c in an input item
MaxSpecs   == 2   \* value specs per file given to add-nosec
MaxRuns    == 2   \* how often the same command is run in succession
MaxFiles   == 3   \* files the glob pattern matches in a batch

----------------------------------------------------------------------------
(* Sequences of characters. *)

Range(s) == {s[i] : i \in 1..Len(s)}

Front(s) == SubSeq(s, 1, Len(s) - 1)

\* All sequences over S of length at most n.
RECURSIVE SeqsUpTo(_, _)
SeqsUpTo(S, n) ==
    IF n = 0 THEN {<<>>}
    ELSE LET shorter == SeqsUpTo(S, n - 1)
         IN  shorter \cup {Append(s, c) : s \in {t \in shorter : Len(t) = n - 1}, c \in S}

\* unicode.IsSpace on the characters of the model's alphabets.
IsSpace(c) == c \in {" ", "\n", "\t"}

RECURSIVE TrimLeft(_)
TrimLeft(s) == IF s # <<>> /\ IsSpace(Head(s)) THEN TrimLeft(Tail(s)) ELSE s

RECURSIVE TrimRight(_)
TrimRight(s) == IF s # <<>> /\ IsSpace(s[Len(s)]) THEN TrimRight(Front(s)) ELSE s

\* strings.TrimSpace
TrimSpace(s) == TrimRight(TrimLeft(s))

\* strings.Split(s, sep) for a one-character separator: always at least one
\* element, and n separators give n + 1 elements.
RECURSIVE Split(_, _)
Split(s, sep) ==
    IF s = <<>> THEN << <<>> >>
    ELSE LET r == Split(Front(s), sep)
             c == s[Len(s)]
         IN  IF c = sep THEN Append(r, <<>>)
             ELSE [r EXCEPT ![Len(r)] = Append(@, c)]

\* strings.HasPrefix
HasPrefix(s, prefix) ==
    /\ Len(prefix) <= Len(s)
    /\ SubSeq(s, 1, Len(prefix)) = prefix

RECURSIVE SelectSeqNonEmpty(_)
SelectSeqNonEmpty(ss) ==
    IF ss = <<>> THEN <<>>
    ELSE IF Head(ss) = <<>> THEN SelectSeqNonEmpty(Tail(ss))
    ELSE <<Head(ss)>> \o SelectSeqNonEmpty(Tail(ss))

----------------------------------------------------------------------------
(* File paths: filepath.Abs on a Unix system. *)

\* filepath.Clean of a rooted path, on its components: "." is dropped, ".."
\* removes the component before it (and is dropped at the root).
RECURSIVE CleanComps(_, _)
CleanComps(comps, acc) ==
    IF comps = <<>> THEN acc
    ELSE LET c == Head(comps)
         IN  IF c = <<".">> THEN CleanComps(Tail(comps), acc)
             ELSE IF c = <<".", ".">>
                  THEN CleanComps(Tail(comps), IF acc = <<>> THEN acc ELSE Front(acc))
             ELSE CleanComps(Tail(comps), Append(acc, c))

\* The cleaned components of the absolute form of path p under directory wd.
AbsComps(p, wd) ==
    LET rooted == IF p # <<>> /\ Head(p) = "/" THEN p ELSE wd \o <<"/">> \o p
    IN  CleanComps(SelectSeqNonEmpty(Split(rooted, "/")), <<>>)

RECURSIVE JoinComps(_)
JoinComps(comps) ==
    IF comps = <<>> THEN <<>>
    ELSE <<"/">> \o Head(comps) \o JoinComps(Tail(comps))

\* filepath.Abs(p) with working directory wd: the root is "/", any other
\* path is "/c1/c2/...", without a trailing slash.
Abs(p, wd) ==
    LET comps == AbsComps(p, wd)
    IN  IF comps = <<>> THEN <<"/">> ELSE JoinComps(comps)

\* strings.HasSuffix
HasSuffix(s, suffix) ==
    /\ Len(suffix) <= Len(s)
    /\ SubSeq(s, Len(s) - Len(suffix) + 1, Len(s)) = suffix

\* filepath.Clean of a path that is not rooted, on its components: "." is
\* dropped, ".." removes the component before it and is kept where there is
\* none to remove.
RECURSIVE CleanRel(_, _)
CleanRel(comps, acc) ==
    IF comps = <<>> THEN acc
    ELSE LET c == Head(comps)
         IN  IF c = <<".">> THEN CleanRel(Tail(comps), acc)
             ELSE IF c = <<".", ".">>
                  THEN CleanRel(Tail(comps),
                                IF acc # <<>> /\ acc[Len(acc)] # <<".", ".">>
                                THEN Front(acc) ELSE Append(acc, c))
             ELSE CleanRel(Tail(comps), Append(acc, c))

\* filepath.Clean(p): two paths clean to the same string exactly when they
\* agree on being rooted and on their cleaned components.
Clean(p) ==
    LET comps == SelectSeqNonEmpty(Split(p, "/"))
    IN  IF p # <<>> /\ Head(p) = "/"
        THEN [rooted |-> TRUE, comps |-> CleanComps(comps, <<>>)]
        ELSE [rooted |-> FALSE, comps |-> CleanRel(comps, <<>>)]

\* The callback of walkDir in the directory-walk Run: an entry is kept when
\* it is not a directory, its path ends in ".go" and its cleaned path is
\* not the cleaned modelPath.  The callback returns nil for every directory,
\* so the walk descends into each of them.
walkFn(d, modelPath) ==
    /\ ~d.isDir
    /\ HasSuffix(d.path, <<".", "g", "o">>)
    /\ Clean(d.path) # Clean(modelPath)

\* files, after walkDir has called the callback on every entry under the
\* root, in the lexical order of the walk.
WalkFiles(entries, modelPath) ==
    LET keep(d) == walkFn(d, modelPath)
        kept == SelectSeq(entries, keep)
    IN  [i \in 1..Len(kept) |-> kept[i].name]

----------------------------------------------------------------------------
(* addnosec: the Target Resolver. *)

\* The characters of a one- or two-letter Go identifier, as the target list
\* spells it.
Spell(name) ==
    CASE name = "a"  -> <<"a">>
      [] name = "b"  -> <<"b">>
      [] name = "ab" -> <<"a", "b">>
      [] OTHER       -> <<name>>

\* A variant of parseTargets that keeps each entry as written.
parseTargetsRaw(targets) ==
    LET parts == Split(targets, ",")
    IN  {parts[i] : i \in {j \in 1..Len(parts) : TrimSpace(parts[j]) # <<>>}}

\* parseTargets: split on comma, trim, keep the non-empty trimmed entries.
parseTargets(targets) ==
    LET parts == Split(targets, ",")
    IN  {TrimSpace(parts[i]) : i \in {j \in 1..Len(parts) : TrimSpace(parts[j]) # <<>>}}

\* csv.Reader.ReadAll with the default settings, for content without quote
\* characters: records are the non-empty lines, fields are split on comma,
\* and every record must have as many fields as the first.
ReadAll(content) ==
    LET lines   == SelectSeqNonEmpty(Split(content, "\n"))
        records == [i \in 1..Len(lines) |-> Split(lines[i], ",")]
    IN  [ok      |-> \A i \in 1..Len(records) : Len(records[i]) = Len(records[1]),
         records |-> records]

\* The loop of parseTargetsCSV over the records: a field is kept when its
\* trimmed value is non-empty, and the key stored is the field as read
\* (targetMap[name] = true), not its trimmed value.
csvTargetMap(records) ==
    UNION { {records[i][j] : j \in {k \in 1..Len(records[i]) :
                                        TrimSpace(records[i][k]) # <<>>}} :
            i \in 1..Len(records) }

IsAbsPath(p) == p # <<>> /\ Head(p) = "/"

\* filepath.Abs fails only when the working directory is needed and cannot
\* be determined.
AbsFails(p, e) == ~IsAbsPath(p) /\ ~e.cwdOk

\* sanitizePath: the absolute csvPath, accepted when the absolute base
\* directory is a string prefix of it.
sanitizePath(csvPath, baseDir, e) ==
    IF AbsFails(csvPath, e) THEN [err |-> "failed to get absolute path", path |-> <<>>]
    ELSE IF AbsFails(baseDir, e)
         THEN [err |-> "failed to get absolute base directory", path |-> <<>>]
    ELSE LET absPath == Abs(csvPath, e.cwd)
             baseAbs == Abs(baseDir, e.cwd)
         IN  IF ~HasPrefix(absPath, baseAbs)
             THEN [err |-> "invalid path: not within the allowed directory", path |-> <<>>]
             ELSE [err |-> "", path |-> absPath]

\* parseTargetsCSV: sanitize, open, read all rows, build the map.  opened is
\* the path handed to openFile when openFile succeeded.
parseTargetsCSV(csvPath, allowedBaseDir, e) ==
    LET safe == sanitizePath(csvPath, allowedBaseDir, e)
        rows == ReadAll(e.csvContent)
    IN  IF safe.err # "" THEN [err |-> safe.err, map |-> {}, opened |-> {}]
        ELSE IF ~e.csvExists
             THEN [err |-> "failed to open CSV file", map |-> {}, opened |-> {}]
        ELSE IF ~rows.ok
             THEN [err |-> "failed to parse CSV file", map |-> {}, opened |-> {safe.path}]
        ELSE [err |-> "", map |-> csvTargetMap(rows.records), opened |-> {safe.path}]

----------------------------------------------------------------------------
(* Go source files: the text on disk, and the tree parser.ParseFile builds. *)
(*                                                                         *)
(* A file on disk is [k |-> "go", ...], or [k |-> "empty"] (zero length,   *)
(* as os.Create leaves it), or [k |-> "bad"] (not syntactically valid).    *)
(* A "go" file holds                                                       *)
(*   lay     "raw" or "gofmt": whether the layout is already canonical     *)
(*   pkg     the package name                                              *)
(*   imports the import specs in order, each [name, path]                  *)
(*   grouped whether the imports stand in one parenthesised declaration    *)
(*   items   the identifier-bearing places of the declarations, in order   *)
(*   free    the number of comment groups attached to no value spec        *)
(*   specs   the const/var value specs, in order                           *)
(* A comment is the sequence of the words after its "//"; the word         *)
(* "#nosec" stands for the marker text and "//" for a second "//" on the   *)
(* same line.  Values are single-line, as in the repository's tests.       *)
(***************************************************************************)

Empty == [k |-> "empty"]
Bad   == [k |-> "bad"]

Marker == "#nosec"

\* strings.Contains(comment.Text, "#nosec")
ContainsMarker(text) == Marker \in Range(text)

\* A value spec as parsed: its line comment and its doc comment become
\* comment groups (lists of comments) that are also listed in File.Comments.
ParseSpec(t) ==
    [tok       |-> t.tok,
     Names     |-> t.names,
     Doc       |-> IF t.doc = <<>> THEN <<>> ELSE <<t.doc>>,
     Comment   |-> IF t.trail = <<>> THEN <<>> ELSE <<t.trail>>,
     docListed |-> t.doc # <<>>,
     cmtListed |-> t.trail # <<>>]

\* The comments of a group as the printer lays them out when they all lie
\* on the spec's line: one after the other on that line.
RECURSIVE JoinLine(_)
JoinLine(list) ==
    IF list = <<>> THEN <<>>
    ELSE IF Len(list) = 1 THEN list[1]
    ELSE list[1] \o <<"//">> \o JoinLine(Tail(list))

\* go/printer: with no comment in File.Comments the printer uses the
\* comments attached to the nodes; otherwise it prints the groups listed in
\* File.Comments and no other.
PrintSpec(s, useNodeComments) ==
    [tok   |-> s.tok,
     names |-> s.Names,
     doc   |-> IF s.Doc # <<>> /\ (useNodeComments \/ s.docListed)
               THEN JoinLine(s.Doc) ELSE <<>>,
     trail |-> IF s.Comment # <<>> /\ (useNodeComments \/ s.cmtListed)
               THEN JoinLine(s.Comment) ELSE <<>>]

(* An item on disk is one place of the file that holds an identifier or a  *)
(* dotted expression:                                                      *)
(*   slot   "name": a place whose field is an *ast.Ident (a declared type, *)
(*          function, field, parameter or label name); "expr": a place     *)
(*          whose field is an ast.Expr (a type or a value reference)       *)
(*   inner  the dotted chain inside parentheses at the base, or <<>>       *)
(*   outer  the selectors after it; with inner = <<>> the whole chain      *)
(* so <<>>, <<"models", "User">> is models.User and <<"User">>, <<"x">> is *)
(* (User).x.  The tree has *ast.Ident, *ast.SelectorExpr and               *)
(* *ast.ParenExpr nodes.                                                   *)

Ident(n)        == [k |-> "Ident", Name |-> n]
SelectorExpr(x, sel) == [k |-> "SelectorExpr", X |-> x, Sel |-> sel]
ParenExpr(x)    == [k |-> "ParenExpr", X |-> x]

\* base.s1.s2... parses left-associated.
RECURSIVE ChainNode(_, _)
ChainNode(base, sels) ==
    IF sels = <<>> THEN base
    ELSE ChainNode(SelectorExpr(base, Head(sels)), Tail(sels))

ParseItem(t) ==
    [slot |-> t.slot,
     node |-> IF t.inner = <<>>
              THEN ChainNode(Ident(Head(t.outer)), Tail(t.outer))
              ELSE ChainNode(ParenExpr(ChainNode(Ident(Head(t.inner)), Tail(t.inner))),
                             t.outer)]

\* The printer writes a selector as X "." Sel and keeps parentheses.
RECURSIVE Flatten(_)
Flatten(node) ==
    CASE node.k = "Ident" -> [inner |-> <<>>, outer |-> <<node.Name>>]
      [] node.k = "SelectorExpr" ->
            LET r == Flatten(node.X)
            IN  [inner |-> r.inner, outer |-> Append(r.outer, node.Sel)]
      [] node.k = "ParenExpr" -> [inner |-> Flatten(node.X).outer, outer |-> <<>>]

PrintItem(it) ==
    LET r == Flatten(it.node)
    IN  [slot |-> it.slot, inner |-> r.inner, outer |-> r.outer]

\* Import paths in the order of their text, for ast.SortImports.
ImportPaths ==
    << <<"fmt">>, <<"internal", "models">>, <<"internal", "models", "">>,
       <<"models">>, <<"x", "User">> >>

PathRank(p) == CHOOSE i \in 1..Len(ImportPaths) : ImportPaths[i] = p

NameRank(n) == IF n = "" THEN 0 ELSE 1

\* sort order of ast.SortImports: by path, then by name
ImportLess(a, b) ==
    \/ PathRank(a.path) < PathRank(b.path)
    \/ (a.path = b.path /\ NameRank(a.name) < NameRank(b.name))

RECURSIVE InsertImport(_, _)
InsertImport(sorted, s) ==
    IF sorted = <<>> THEN <<s>>
    ELSE IF s = Head(sorted) THEN sorted                 \* duplicate: collapsed
    ELSE IF ImportLess(s, Head(sorted)) THEN <<s>> \o sorted
    ELSE <<Head(sorted)>> \o InsertImport(Tail(sorted), s)

\* ast.SortImports on one block: sorted, exact duplicates removed.
RECURSIVE SortImports(_)
SortImports(specs) ==
    IF specs = <<>> THEN <<>>
    ELSE InsertImport(SortImports(Front(specs)), specs[Len(specs)])

\* parser.ParseFile with parser.ParseComments on a valid file.
ParseGo(t) ==
    [Name     |-> t.pkg,
     Imports  |-> t.imports,
     grouped  |-> t.grouped,
     Items    |-> [i \in 1..Len(t.items) |-> ParseItem(t.items[i])],
     Specs    |-> [i \in 1..Len(t.specs) |-> ParseSpec(t.specs[i])],
     free     |-> t.free,
     Comments |-> t.free
                  + Cardinality({i \in 1..Len(t.specs) : t.specs[i].doc # <<>>})
                  + Cardinality({i \in 1..Len(t.specs) : t.specs[i].trail # <<>>})]

\* format.Node on a file: imports of a parenthesised declaration are
\* sorted, the layout is canonical, comments as PrintSpec says.
FormatGo(f) ==
    [k       |-> "go",
     lay     |-> "gofmt",
     pkg     |-> f.Name,
     imports |-> IF f.grouped THEN SortImports(f.Imports) ELSE f.Imports,
     grouped |-> f.grouped,
     items   |-> [i \in 1..Len(f.Items) |-> PrintItem(f.Items[i])],
     free    |-> f.free,
     specs   |-> [i \in 1..Len(f.Specs) |-> PrintSpec(f.Specs[i], f.Comments = 0)]]

NoTree == [Name |-> "", Imports |-> <<>>, grouped |-> FALSE, Items |-> <<>>,
           Specs |-> <<>>, free |-> 0, Comments |-> 0]

----------------------------------------------------------------------------
(* addnosec: the Annotation Injector (the callback given to astutil.Apply). *)

\* A variant of hasNoSec that never finds the marker.
hasNoSecNever(valSpec) == FALSE

hasNoSec(valSpec) ==
    \E i \in 1..Len(valSpec.Comment) : ContainsMarker(valSpec.Comment[i])

\* A variant of TagSpec that makes a new group but never appends to an
\* existing one.
TagSpecOnlyNew(valSpec) ==
    IF valSpec.Comment # <<>> THEN valSpec
    ELSE [valSpec EXCEPT !.Comment = Append(@, <<Marker>>)]

\* A variant of TagSpec that puts the marker in a new group in the place of
\* the group the spec had.
TagSpecReplace(valSpec) ==
    IF hasNoSec(valSpec) THEN valSpec
    ELSE [valSpec EXCEPT !.Comment = << <<Marker>> >>, !.cmtListed = FALSE]

\* A variant of TagSpec that adds the marker for a name without looking for
\* a marker already in the group.
TagSpecPerName(valSpec) ==
    [valSpec EXCEPT !.Comment = Append(@, <<Marker>>)]

\* The body of "if targetMap[name.Name]": a new comment "// #nosec" goes
\* into a new group when the spec has no line comment, and is appended to
\* the existing group otherwise.  A new group is not listed in File.Comments.
TagSpec(valSpec) ==
    IF hasNoSec(valSpec) THEN valSpec
    ELSE [valSpec EXCEPT !.Comment = Append(@, <<Marker>>)]

\* "for _, name := range valSpec.Names"
RECURSIVE InjectNames(_, _, _)
InjectNames(valSpec, names, targets) ==
    IF names = <<>> THEN valSpec
    ELSE InjectNames(IF Spell(Head(names)) \in targets THEN TagSpec(valSpec) ELSE valSpec,
                     Tail(names), targets)

\* astutil.Apply over the file: every *ast.ValueSpec is visited once.
Inject(f, targets) ==
    [f EXCEPT !.Specs = [i \in 1..Len(f.Specs) |->
                            InjectNames(f.Specs[i], f.Specs[i].Names, targets)]]

----------------------------------------------------------------------------
(* qualifymodels: the Model Name Extractor and the Identifier Qualifier.   *)

\* A variant of extractModelNames that records every top-level type.
extractModelNamesAnyType(decls) ==
    {decls[i].name : i \in {j \in 1..Len(decls) : decls[j].top /\ decls[j].tok = "type"}}

\* The models file: its declarations in order, each [tok, name, type, alias,
\* top]: tok "type" for a type declaration, type the kind of the declared
\* type's expression ("struct" for *ast.StructType), alias whether it is
\* written with "=", top whether it is among File.Decls (a type declared
\* inside a function is not).
extractModelNames(decls) ==
    {decls[i].name : i \in {j \in 1..Len(decls) :
        /\ decls[j].top
        /\ decls[j].tok = "type"
        /\ decls[j].type = "struct"}}

\* path.Base of an import path given by its "/"-separated segments:
\* trailing slashes are dropped, the last segment is returned, "." for the
\* empty path and "/" for a path of slashes only.
RECURSIVE pathBase(_)
pathBase(segs) ==
    IF segs = <<>> \/ segs = << "" >> THEN "."
    ELSE IF segs[Len(segs)] # "" THEN segs[Len(segs)]
    ELSE IF \A i \in 1..Len(segs) : segs[i] = "" THEN "/"
    ELSE pathBase(Front(segs))

\* A variant of QualifyIdent that skips only the selected name of a
\* selector, and replaces its base.
QualifyIdentBase(ident, parent, exprField, names, alias) ==
    IF ident.Name \in names
    THEN IF exprField
         THEN [panic |-> FALSE, node |-> SelectorExpr(Ident(alias), ident.Name)]
         ELSE [panic |-> parent # "SelectorExpr", node |-> ident]
    ELSE [panic |-> FALSE, node |-> ident]

\* A variant of QualifyIdent that looks at the name alone and not at the
\* parent: an identifier under a selector is replaced like any other.
QualifyIdentAnyParent(ident, parent, exprField, names, alias) ==
    IF ident.Name \in names
    THEN IF exprField
         THEN [panic |-> FALSE, node |-> SelectorExpr(Ident(alias), ident.Name)]
         ELSE [panic |-> TRUE, node |-> ident]
    ELSE [panic |-> FALSE, node |-> ident]

\* A variant of QualifyIdent whose traversal goes on into the selector it
\* has put in place and takes the qualifier there for a bare identifier.
QualifyIdentDescend(ident, parent, exprField, names, alias) ==
    IF ident.Name \in names
    THEN IF parent = "SelectorExpr" THEN [panic |-> FALSE, node |-> ident]
         ELSE IF exprField
              THEN [panic |-> FALSE,
                    node  |-> SelectorExpr(IF alias \in names
                                           THEN SelectorExpr(Ident(alias), alias)
                                           ELSE Ident(alias),
                                           ident.Name)]
         ELSE [panic |-> TRUE, node |-> ident]
    ELSE [panic |-> FALSE, node |-> ident]

\* The callback on one identifier: parent is the kind of the parent node,
\* exprField whether the field holding the identifier is an ast.Expr (a
\* replacement by a selector can be stored in it) or an *ast.Ident.
\* Result: the node now in the field, or a panic of Cursor.Replace.
QualifyIdent(ident, parent, exprField, names, alias) ==
    IF ident.Name \in names
    THEN IF parent = "SelectorExpr" THEN [panic |-> FALSE, node |-> ident]
         ELSE IF exprField
              THEN [panic |-> FALSE,
                    node  |-> SelectorExpr(Ident(alias), ident.Name)]
         ELSE [panic |-> TRUE, node |-> ident]
    ELSE [panic |-> FALSE, node |-> ident]

\* astutil.Apply below one item: pre-order; the children walked are those
\* of the node found, so a replacement is not descended into.
RECURSIVE QualifyNode(_, _, _, _, _)
QualifyNode(node, parent, exprField, names, alias) ==
    CASE node.k = "Ident" -> QualifyIdent(node, parent, exprField, names, alias)
      [] node.k = "ParenExpr" ->
            LET x == QualifyNode(node.X, "ParenExpr", TRUE, names, alias)
            IN  [panic |-> x.panic, node |-> ParenExpr(x.node)]
      [] node.k = "SelectorExpr" ->
            LET x == QualifyNode(node.X, "SelectorExpr", TRUE, names, alias)
                s == QualifyIdent(Ident(node.Sel), "SelectorExpr", FALSE, names, alias)
            IN  [panic |-> x.panic \/ s.panic,
                 node  |-> SelectorExpr(x.node, s.node.Name)]

QualifyItem(it, names, alias) ==
    LET r == QualifyNode(it.node, it.slot, it.slot = "expr", names, alias)
    IN  [panic |-> r.panic, item |-> [slot |-> it.slot, node |-> r.node]]

\* astutil.Apply over the file: the package name, the names of the import
\* specs, every item, and the declared names of the value specs.
Qualify(f, names, alias) ==
    LET its == [i \in 1..Len(f.Items) |-> QualifyItem(f.Items[i], names, alias)]
    IN  [panic |-> \/ f.Name \in names
                   \/ \E i \in 1..Len(f.Imports) : f.Imports[i].name \in names
                   \/ \E i \in 1..Len(its) : its[i].panic
                   \/ \E i \in 1..Len(f.Specs) :
                         \E j \in 1..Len(f.Specs[i].Names) : f.Specs[i].Names[j] \in names,
         file  |-> [f EXCEPT !.Items = [i \in 1..Len(its) |-> its[i].item]]]

\* A variant of AddImport that adds the import without looking for an
\* existing one.
AddImportAlways(f, path) ==
    [f EXCEPT !.Imports = Append(@, [name |-> "", path |-> path]),
              !.grouped = Len(f.Imports) + 1 >= 2]

\* A variant of AddImport that looks for an existing import by its path
\* alone, whatever its name.
AddImportByPath(f, path) ==
    IF \E i \in 1..Len(f.Imports) : f.Imports[i].path = path
    THEN f
    ELSE [f EXCEPT !.Imports = Append(@, [name |-> "", path |-> path]),
                   !.grouped = Len(f.Imports) + 1 >= 2]

\* astutil.AddImport(fset, f, path): nothing when an import with no name
\* and this path exists; else the import is added and all import
\* declarations are merged into one, parenthesised when it holds several.
AddImport(f, path) ==
    IF \E i \in 1..Len(f.Imports) : f.Imports[i].name = "" /\ f.Imports[i].path = path
    THEN f
    ELSE [f EXCEPT !.Imports = Append(@, [name |-> "", path |-> path]),
                   !.grouped = Len(f.Imports) + 1 >= 2]

\* A variant of isSQLCModern that never detects native qualification.
isSQLCModernNever(e) == FALSE

\* isSQLCModern: sqlc.yaml is readable, is valid YAML and sets both keys.
isSQLCModern(e) ==
    /\ e.sqlcYaml.readable
    /\ e.sqlcYaml.valid
    /\ e.sqlcYaml.OutputModelsPackage # ""
    /\ e.sqlcYaml.ModelsPackageImportPath # ""

----------------------------------------------------------------------------
(* The steps of Run.                                                       *)

\* filepath.Glob fails on a malformed pattern only.
BadPattern(pattern) == pattern = "["

\* The errors the seams parseFile, glob, createFile and formatNode yield.
ParseError  == "syntax error"
GlobError   == "syntax error in pattern"
CreateError == "permission denied"
WalkError == "no such file or directory"
FormatError == "write error"

\* return fmt.Errorf("r ...: %w", err): the deferred Close calls run, the
\* caller sees the message r wrapping err.
Fail(r, err, disk) ==
    /\ pc' = "done"
    /\ ret' = r
    /\ cause' = err
    /\ handles' = <<>>
    /\ hist' = Append(hist, [ret |-> r, fs |-> disk])

\* A return of Run with nil, or with an error Run makes itself or passes on.
Return(r, disk) == Fail(r, "", disk)

\* qualifymodels.Run, lines 75-78: native qualification detected.
SkipModern ==
    /\ cmd = "qualify-models" /\ pc = "start"
    /\ isSQLCModern(env)
    /\ Return("nil", fs)
    /\ UNCHANGED <<cmd, args, env, fs, modelNames, pkgAlias, targetMap, files, idx,
                   tree, csvOpened, run>>

\* qualifymodels.Run, lines 80-104: parse the models file, collect the
\* struct names, derive the alias.
ParseModels ==
    /\ cmd = "qualify-models" /\ pc = "start"
    /\ ~isSQLCModern(env)
    /\ IF env.modelFile.k # "go"
       THEN /\ Fail("failed to parse model file", ParseError, fs)
            /\ UNCHANGED <<modelNames, pkgAlias>>
       ELSE /\ modelNames' = extractModelNames(env.modelFile.decls)
            /\ pkgAlias' = pathBase(args.modelImport)
            /\ pc' = "glob"
            /\ UNCHANGED <<ret, cause, handles, hist>>
    /\ UNCHANGED <<cmd, args, env, fs, targetMap, files, idx, tree, csvOpened, run>>

\* A variant of CheckTargets that rejects only the empty selection.
CheckTargetsEither ==
    /\ cmd = "add-nosec" /\ pc = "start"
    /\ IF args.targets = <<>> /\ args.csvPath = <<>>
       THEN Return("must specify either targets or csvPath", fs)
       ELSE /\ pc' = "resolve"
            /\ UNCHANGED <<ret, cause, handles, hist>>
    /\ UNCHANGED <<cmd, args, env, fs, modelNames, pkgAlias, targetMap, files, idx,
                   tree, csvOpened, run>>

\* addnosec.Run, lines 59-63: exactly one of targets and csvPath.
CheckTargets ==
    /\ cmd = "add-nosec" /\ pc = "start"
    /\ IF args.csvPath # <<>> /\ args.targets # <<>>
       THEN Return("cannot specify both targets and csvPath", fs)
       ELSE IF args.targets = <<>> /\ args.csvPath = <<>>
            THEN Return("must specify either targets or csvPath", fs)
       ELSE /\ pc' = "resolve"
            /\ UNCHANGED <<ret, cause, handles, hist>>
    /\ UNCHANGED <<cmd, args, env, fs, modelNames, pkgAlias, targetMap, files, idx,
                   tree, csvOpened, run>>

\* addnosec.Run, lines 65-72: build targetMap from the CSV file or from
\* the inline list.
ResolveTargets ==
    /\ cmd = "add-nosec" /\ pc = "resolve"
    /\ IF args.csvPath # <<>>
       THEN LET r == parseTargetsCSV(args.csvPath, args.allowedBaseDir, env)
            IN  /\ csvOpened' = csvOpened \cup r.opened
                /\ IF r.err # ""
                   THEN /\ Return(r.err, fs)
                        /\ UNCHANGED targetMap
                   ELSE /\ targetMap' = r.map
                        /\ pc' = "glob"
                        /\ UNCHANGED <<ret, cause, handles, hist>>
       ELSE /\ targetMap' = parseTargets(args.targets)
            /\ pc' = "glob"
            /\ UNCHANGED <<ret, cause, handles, hist, csvOpened>>
    /\ UNCHANGED <<cmd, args, env, fs, modelNames, pkgAlias, files, idx, tree, run>>

\* A variant of Glob that goes on with the files found when the pattern is
\* malformed.
GlobIgnoreErr ==
    /\ pc = "glob"
    /\ files' = env.matches
    /\ idx' = 1
    /\ IF env.matches = <<>>
       THEN Return("nil", fs)
       ELSE /\ pc' = "parse"
            /\ UNCHANGED <<ret, cause, handles, hist>>
    /\ UNCHANGED <<cmd, args, env, fs, modelNames, pkgAlias, targetMap, tree,
                   csvOpened, run>>

\* A variant of Glob that takes a pattern without a match for an error.
GlobNoMatchErr ==
    /\ pc = "glob"
    /\ IF BadPattern(args.queryGlob) \/ env.matches = <<>>
       THEN /\ Fail("failed to glob", GlobError, fs)
            /\ UNCHANGED <<files, idx>>
       ELSE /\ files' = env.matches
            /\ idx' = 1
            /\ pc' = "parse"
            /\ UNCHANGED <<ret, cause, handles, hist>>
    /\ UNCHANGED <<cmd, args, env, fs, modelNames, pkgAlias, targetMap, tree,
                   csvOpened, run>>

\* Both Runs: files, err := glob(queryGlob), and the loop's start.
Glob ==
    /\ pc = "glob"
    /\ IF BadPattern(args.queryGlob)
       THEN /\ Fail("failed to glob", GlobError, fs)
            /\ UNCHANGED <<files, idx>>
       ELSE /\ files' = env.matches
            /\ idx' = 1
            /\ IF env.matches = <<>>
               THEN Return("nil", fs)
               ELSE /\ pc' = "parse"
                    /\ UNCHANGED <<ret, cause, handles, hist>>
    /\ UNCHANGED <<cmd, args, env, fs, modelNames, pkgAlias, targetMap, tree,
                   csvOpened, run>>

\* A variant of ParseFile that passes over a file it cannot parse and goes
\* on with the next.
ParseFileSkip ==
    /\ pc = "parse"
    /\ IF fs[files[idx]].k # "go"
       THEN /\ idx' = idx + 1
            /\ IF idx = Len(files)
               THEN Return("nil", fs)
               ELSE UNCHANGED <<pc, ret, cause, handles, hist>>
            /\ UNCHANGED tree
       ELSE /\ tree' = ParseGo(fs[files[idx]])
            /\ pc' = "apply"
            /\ UNCHANGED <<idx, ret, cause, handles, hist>>
    /\ UNCHANGED <<cmd, args, env, fs, modelNames, pkgAlias, targetMap, files,
                   csvOpened, run>>

\* Both Runs: parseFile(fset, file, nil, parser.ParseComments).
ParseFile ==
    /\ pc = "parse"
    /\ IF fs[files[idx]].k # "go"
       THEN /\ Fail("failed to parse file", ParseError, fs)
            /\ UNCHANGED tree
       ELSE /\ tree' = ParseGo(fs[files[idx]])
            /\ pc' = "apply"
            /\ UNCHANGED <<ret, cause, handles, hist>>
    /\ UNCHANGED <<cmd, args, env, fs, modelNames, pkgAlias, targetMap, files, idx,
                   csvOpened, run>>

\* qualifymodels.Run, lines 121-143: astutil.Apply, then astutil.AddImport.
\* A panic of Cursor.Replace ends the process.
ApplyQualify ==
    /\ cmd = "qualify-models" /\ pc = "apply"
    /\ LET r == Qualify(tree, modelNames, pkgAlias)
       IN  IF r.panic
           THEN /\ pc' = "done"
                /\ ret' = "panic"
                /\ cause' = ""
                /\ handles' = <<>>
                /\ hist' = Append(hist, [ret |-> "panic", fs |-> fs])
                /\ UNCHANGED tree
           ELSE /\ tree' = AddImport(r.file, args.modelImport)
                /\ pc' = "create"
                /\ UNCHANGED <<ret, cause, handles, hist>>
    /\ UNCHANGED <<cmd, args, env, fs, modelNames, pkgAlias, targetMap, files, idx,
                   csvOpened, run>>

\* addnosec.Run, lines 92-126: astutil.Apply with the injector.
ApplyInject ==
    /\ cmd = "add-nosec" /\ pc = "apply"
    /\ tree' = Inject(tree, targetMap)
    /\ pc' = "create"
    /\ UNCHANGED <<cmd, args, env, fs, ret, cause, modelNames, pkgAlias, targetMap,
                   files, idx, handles, csvOpened, run, hist>>

\* A variant of CreateFile in which a file that cannot be opened for writing
\* is emptied all the same.
CreateFileTruncates ==
    /\ pc = "create"
    /\ IF files[idx] \in env.readonly
       THEN LET disk == [fs EXCEPT ![files[idx]] = Empty]
            IN  /\ fs' = disk
                /\ Fail("failed to open file for writing", CreateError, disk)
       ELSE /\ fs' = [fs EXCEPT ![files[idx]] = Empty]
            /\ handles' = Append(handles, files[idx])
            /\ pc' = "format"
            /\ UNCHANGED <<ret, cause, hist>>
    /\ UNCHANGED <<cmd, args, env, modelNames, pkgAlias, targetMap, files, idx, tree,
                   csvOpened, run>>

\* Both Runs: outFile, err := createFile(file); defer outFile.Close().
\* os.Create truncates the file.
CreateFile ==
    /\ pc = "create"
    /\ IF files[idx] \in env.readonly
       THEN /\ Fail("failed to open file for writing", CreateError, fs)
            /\ UNCHANGED fs
       ELSE /\ fs' = [fs EXCEPT ![files[idx]] = Empty]
            /\ handles' = Append(handles, files[idx])
            /\ pc' = "format"
            /\ UNCHANGED <<ret, cause, hist>>
    /\ UNCHANGED <<cmd, args, env, modelNames, pkgAlias, targetMap, files, idx, tree,
                   csvOpened, run>>

\* A variant of FormatNode that does not look at the error of formatNode.
FormatNodeSilent ==
    /\ pc = "format"
    /\ LET disk == IF files[idx] \in env.wfail THEN fs
                   ELSE [fs EXCEPT ![files[idx]] = FormatGo(tree)]
       IN  /\ fs' = disk
           /\ idx' = idx + 1
           /\ IF idx = Len(files)
              THEN Return("nil", disk)
              ELSE /\ pc' = "parse"
                   /\ UNCHANGED <<ret, cause, handles, hist>>
    /\ UNCHANGED <<cmd, args, env, modelNames, pkgAlias, targetMap, files, tree,
                   csvOpened, run>>

\* Both Runs: formatNode(outFile, fset, f), then the next file or return nil.
FormatNode ==
    /\ pc = "format"
    /\ IF files[idx] \in env.wfail
       THEN /\ Fail("failed to write file", FormatError, fs)
            /\ UNCHANGED <<fs, idx>>
       ELSE LET disk == [fs EXCEPT ![files[idx]] = FormatGo(tree)]
            IN  /\ fs' = disk
                /\ idx' = idx + 1
                /\ IF idx = Len(files)
                   THEN Return("nil", disk)
                   ELSE /\ pc' = "parse"
                        /\ UNCHANGED <<ret, cause, handles, hist>>
    /\ UNCHANGED <<cmd, args, env, modelNames, pkgAlias, targetMap, files, tree,
                   csvOpened, run>>

\* The same command is invoked again on what the previous Run left.
Rerun ==
    /\ pc = "done"
    /\ run < env.runs
    /\ run' = run + 1
    /\ pc' = "start"
    /\ ret' = "running"
    /\ cause' = ""
    /\ modelNames' = {}
    /\ pkgAlias' = ""
    /\ targetMap' = {}
    /\ files' = <<>>
    /\ idx' = 0
    /\ tree' = NoTree
    /\ UNCHANGED <<cmd, args, env, fs, handles, csvOpened, hist>>

\* The command is invoked again after a Run that failed on a file, once
\* what made the steps fail is gone: an invalid file has been corrected by
\* hand, files are writable and writes succeed.  A file the failed Run
\* itself left behind stays as it is.
RerunFixed ==
    /\ pc = "done"
    /\ run < env.runs
    /\ ret \in {"failed to parse file", "failed to open file for writing",
                "failed to write file"}
    /\ env' = [env EXCEPT !.readonly = {}, !.wfail = {}]
    /\ fs' = [f \in DOMAIN fs |-> IF fs[f] = Bad THEN env.fixed ELSE fs[f]]
    /\ run' = run + 1
    /\ pc' = "start"
    /\ ret' = "running"
    /\ cause' = ""
    /\ modelNames' = {}
    /\ pkgAlias' = ""
    /\ targetMap' = {}
    /\ files' = <<>>
    /\ idx' = 0
    /\ tree' = NoTree
    /\ UNCHANGED <<cmd, args, handles, csvOpened, hist>>

\* The directory-walk Run, lines 52-78: parse the models file, collect the
\* struct names, derive the alias.  This Run does not look for native
\* qualification.
WalkParseModels ==
    /\ cmd = "qualify-models-walk" /\ pc = "start"
    /\ IF env.modelFile.k # "go"
       THEN /\ Fail("failed to parse model file", ParseError, fs)
            /\ UNCHANGED <<modelNames, pkgAlias>>
       ELSE /\ modelNames' = extractModelNames(env.modelFile.decls)
            /\ pkgAlias' = pathBase(args.modelImport)
            /\ pc' = "walk"
            /\ UNCHANGED <<ret, cause, handles, hist>>
    /\ UNCHANGED <<cmd, args, env, fs, targetMap, files, idx, tree, csvOpened, run>>

\* The directory-walk Run, lines 80-95: walkDir(rootDbDir, ...).  The error
\* walkDir hands to the callback (a root that cannot be read) is returned.
WalkDir ==
    /\ pc = "walk"
    /\ IF ~env.rootOk
       THEN /\ Fail("failed to walkDir", WalkError, fs)
            /\ UNCHANGED <<files, idx>>
       ELSE /\ files' = WalkFiles(env.entries, args.modelPath)
            /\ idx' = 1
            /\ IF WalkFiles(env.entries, args.modelPath) = <<>>
               THEN Return("nil", fs)
               ELSE /\ pc' = "wparse"
                    /\ UNCHANGED <<ret, cause, handles, hist>>
    /\ UNCHANGED <<cmd, args, env, fs, modelNames, pkgAlias, targetMap, tree,
                   csvOpened, run>>

\* The directory-walk Run, lines 99-103: parseFile on the next file.
WalkParseFile ==
    /\ pc = "wparse"
    /\ IF fs[files[idx]].k # "go"
       THEN /\ Fail("failed to parse query file", ParseError, fs)
            /\ UNCHANGED tree
       ELSE /\ tree' = ParseGo(fs[files[idx]])
            /\ pc' = "wapply"
            /\ UNCHANGED <<ret, cause, handles, hist>>
    /\ UNCHANGED <<cmd, args, env, fs, modelNames, pkgAlias, targetMap, files, idx,
                   csvOpened, run>>

\* The directory-walk Run, lines 106-128: astutil.Apply, then
\* astutil.AddImport.
WalkApply ==
    /\ pc = "wapply"
    /\ LET r == Qualify(tree, modelNames, pkgAlias)
       IN  IF r.panic
           THEN /\ pc' = "done"
                /\ ret' = "panic"
                /\ cause' = ""
                /\ handles' = <<>>
                /\ hist' = Append(hist, [ret |-> "panic", fs |-> fs])
                /\ UNCHANGED tree
           ELSE /\ tree' = AddImport(r.file, args.modelImport)
                /\ pc' = "wwrite"
                /\ UNCHANGED <<ret, cause, handles, hist>>
    /\ UNCHANGED <<cmd, args, env, fs, modelNames, pkgAlias, targetMap, files, idx,
                   csvOpened, run>>

\* The directory-walk Run, lines 132-144: the function literal that creates
\* the file, formats into it and closes it before the next file.
WalkWrite ==
    /\ pc = "wwrite"
    /\ IF files[idx] \in env.readonly
       THEN /\ Fail("failed to write updated file", "failed to open file for writing", fs)
            /\ UNCHANGED <<fs, idx>>
       ELSE IF files[idx] \in env.wfail
            THEN LET disk == [fs EXCEPT ![files[idx]] = Empty]
                 IN  /\ fs' = disk
                     /\ Fail("failed to write updated file", FormatError, disk)
                     /\ UNCHANGED idx
       ELSE LET disk == [fs EXCEPT ![files[idx]] = FormatGo(tree)]
            IN  /\ fs' = disk
                /\ idx' = idx + 1
                /\ IF idx = Len(files)
                   THEN Return("nil", disk)
                   ELSE /\ pc' = "wparse"
                        /\ UNCHANGED <<ret, cause, handles, hist>>
    /\ UNCHANGED <<cmd, args, env, modelNames, pkgAlias, targetMap, files, tree,
                   csvOpened, run>>

Next ==
    \/ SkipModern
    \/ ParseModels
    \/ CheckTargets
    \/ ResolveTargets
    \/ Glob
    \/ ParseFile
    \/ ApplyQualify
    \/ ApplyInject
    \/ CreateFile
    \/ FormatNode
    \/ WalkParseModels
    \/ WalkDir
    \/ WalkParseFile
    \/ WalkApply
    \/ WalkWrite
    \/ Rerun
    \/ RerunFixed

----------------------------------------------------------------------------
(* The invocations checked: Init draws one scenario.                       *)

File1 == "q1.sql.go"

NoYaml == [readable |-> FALSE, valid |-> FALSE,
           OutputModelsPackage |-> "", ModelsPackageImportPath |-> ""]

GoText(imports, grouped, items, free, specs) ==
    [k |-> "go", lay |-> "raw", pkg |-> "queries", imports |-> imports,
     grouped |-> grouped, items |-> items, free |-> free, specs |-> specs]

ConstSpec(names, doc, trail) ==
    [tok |-> "const", names |-> names, doc |-> doc, trail |-> trail]

\* "const a = ...; const b = ..." without comments, as in the tests
TwoConsts == GoText(<<>>, FALSE, <<>>, 0,
                    <<ConstSpec(<<"a">>, <<>>, <<>>), ConstSpec(<<"b">>, <<>>, <<>>)>>)

\* "type User struct{...}"
ModelsGo == [k |-> "go",
             decls |-> <<[tok |-> "type", name |-> "User", type |-> "struct",
                          alias |-> FALSE, top |-> TRUE]>>]

BaseEnv ==
    [cwd        |-> <<"/", "d">>,
     cwdOk      |-> TRUE,
     csvContent |-> <<"a">>,
     csvExists  |-> TRUE,
     sqlcYaml   |-> NoYaml,
     modelFile  |-> ModelsGo,
     matches    |-> <<File1>>,
     entries    |-> <<>>,
     rootOk     |-> TRUE,
     readonly   |-> {},
     wfail      |-> {},
     fixed      |-> TwoConsts,
     runs       |-> 1]

NosecArgs(targets, csvPath, base) ==
    [queryGlob |-> "*.sql.go", targets |-> targets, csvPath |-> csvPath,
     allowedBaseDir |-> base]

QualifyArgs(modelImport) ==
    [modelPath |-> "models.go", queryGlob |-> "*.sql.go", modelImport |-> modelImport]

Scenario(c, a, e, disk) == [cmd |-> c, args |-> a, env |-> e, fs |-> disk]

OneFile(text) == [f \in {File1} |-> text]

TargetChars == {"a", "b", ",", " ", "\n"}
PathChars   == {"/", ".", "d"}

\* add-nosec with every short inline list, and with every short CSV content
\* under an allowed path.
StringScenarios ==
    {Scenario("add-nosec", NosecArgs(s, <<>>, <<"/", "d">>), BaseEnv, OneFile(TwoConsts)) :
        s \in SeqsUpTo(TargetChars, MaxLen)}
    \cup
    {Scenario("add-nosec", NosecArgs(<<>>, <<"/", "d", "/", "d">>, <<"/", "d">>),
              [BaseEnv EXCEPT !.csvContent = s], OneFile(TwoConsts)) :
        s \in SeqsUpTo(TargetChars, MaxLen)}

\* add-nosec with every short csvPath, under several base directories,
\* with and without a working directory and an existing file.
PathScenarios ==
    {Scenario("add-nosec", NosecArgs(<<>>, p, b),
              [BaseEnv EXCEPT !.cwdOk = c[1], !.csvExists = c[2]], OneFile(TwoConsts)) :
        p \in SeqsUpTo(PathChars, MaxPathLen),
        b \in {<<"/", "d">>, <<".">>, <<"/">>, <<"d">>},
        c \in {<<TRUE, TRUE>>, <<FALSE, TRUE>>, <<TRUE, FALSE>>}}

\* add-nosec with both, one or none of targets and csvPath, and with a
\* malformed glob pattern.
ArgScenarios ==
    {Scenario("add-nosec",
              [NosecArgs(t, p, <<"/", "d">>) EXCEPT !.queryGlob = g],
              BaseEnv, OneFile(TwoConsts)) :
        t \in {<<>>, <<"a">>, <<"a", ",", "b">>},
        p \in {<<>>, <<"/", "d", "/", "d">>},
        g \in {"*.sql.go", "["}}

\* The value specs of the files given to add-nosec: constants named a, c,
\* "a, b" and "c, a" with each line comment; a with a doc comment bearing
\* the marker; and a variable a.
SpecShapes ==
    {ConstSpec(n, <<>>, t) :
        n \in {<<"a">>, <<"c">>, <<"a", "b">>, <<"c", "a">>},
        t \in {<<>>, <<"note">>, <<Marker>>}}
    \cup {ConstSpec(<<"a">>, <<Marker>>, t) : t \in {<<>>, <<"note">>}}
    \cup {[tok |-> "var", names |-> <<"a">>, doc |-> <<>>, trail |-> <<>>]}

\* add-nosec --targets "a,b", run MaxRuns times on every file of at most
\* MaxSpecs value specs, with and without a comment elsewhere in the file.
SpecScenarios ==
    {Scenario("add-nosec", NosecArgs(<<"a", ",", "b">>, <<>>, <<"/", "d">>),
              [BaseEnv EXCEPT !.runs = MaxRuns],
              OneFile(GoText(<<>>, FALSE, <<>>, free, specs))) :
        specs \in SeqsUpTo(SpecShapes, MaxSpecs), free \in {0, 1}}

QNames == {"User", "models"}

Chains(n) == SeqsUpTo(QNames, n) \ {<<>>}

NameItem(n) == [slot |-> "name", inner |-> <<>>, outer |-> <<n>>]
ExprItem(inner, outer) == [slot |-> "expr", inner |-> inner, outer |-> outer]

\* declared names, and dotted chains in expression places
SimpleItems ==
    {NameItem(n) : n \in QNames} \cup {ExprItem(<<>>, c) : c \in Chains(MaxChain)}

\* (chain) and (chain).sel
ParenItems ==
    {ExprItem(c, o) : c \in Chains(MaxChain), o \in SeqsUpTo(QNames, 1)}

ModelsPath == <<"internal", "models">>

\* qualify-models, run MaxRuns times on every file of at most MaxItems
\* simple items and on every file of one parenthesised item.
ItemScenarios ==
    {Scenario("qualify-models", QualifyArgs(ModelsPath),
              [BaseEnv EXCEPT !.runs = MaxRuns],
              OneFile(GoText(<<>>, FALSE, items, 0, <<>>))) :
        items \in SeqsUpTo(SimpleItems, MaxItems) \cup {<<p>> : p \in ParenItems}}

ImportSpecs ==
    {[name |-> "", path |-> <<"fmt">>],
     [name |-> "", path |-> ModelsPath],
     [name |-> "m", path |-> ModelsPath],
     [name |-> "", path |-> <<"models">>]}

\* import lists of at most two different specs
ImportLists ==
    {l \in SeqsUpTo(ImportSpecs, 2) : Len(l) = 2 => l[1] # l[2]}

\* qualify-models on files with every import list, for several import paths.
ImportScenarios ==
    {Scenario("qualify-models", QualifyArgs(mi),
              [BaseEnv EXCEPT !.runs = MaxRuns],
              OneFile(GoText(l, g /\ l # <<>>, items, 0, <<>>))) :
        l \in ImportLists, g \in BOOLEAN,
        items \in {<<>>, <<ExprItem(<<>>, <<"User">>)>>},
        mi \in {ModelsPath, <<"models">>, <<"internal", "models", "">>, <<"x", "User">>}}

TypeDecl(name, type, alias, top) ==
    [tok |-> "type", name |-> name, type |-> type, alias |-> alias, top |-> top]

DeclShapes ==
    {TypeDecl(n, t, FALSE, TRUE) : n \in QNames, t \in {"struct", "interface", "ident"}}
    \cup {TypeDecl("User", "ident", TRUE, TRUE), TypeDecl("User", "struct", TRUE, TRUE),
          TypeDecl("User", "struct", FALSE, FALSE),
          [tok |-> "var", name |-> "User", type |-> "struct", alias |-> FALSE, top |-> TRUE]}

YamlShapes ==
    {NoYaml,
     [readable |-> TRUE, valid |-> FALSE,
      OutputModelsPackage |-> "", ModelsPackageImportPath |-> ""],
     [readable |-> TRUE, valid |-> TRUE,
      OutputModelsPackage |-> "models", ModelsPackageImportPath |-> ""],
     [readable |-> TRUE, valid |-> TRUE,
      OutputModelsPackage |-> "", ModelsPackageImportPath |-> "internal/models"],
     [readable |-> TRUE, valid |-> TRUE,
      OutputModelsPackage |-> "models", ModelsPackageImportPath |-> "internal/models"]}

\* qualify-models with every sqlc.yaml and every models file of at most two
\* declarations (or one that does not parse), on a file that uses User and
\* models.User.
ModelScenarios ==
    {Scenario("qualify-models", QualifyArgs(ModelsPath),
              [BaseEnv EXCEPT !.sqlcYaml = y, !.modelFile = m],
              OneFile(GoText(<<>>, FALSE,
                             <<ExprItem(<<>>, <<"User">>),
                               ExprItem(<<>>, <<"models", "User">>)>>, 0, <<>>))) :
        y \in YamlShapes,
        m \in {Bad} \cup {[k |-> "go", decls |-> d] : d \in SeqsUpTo(DeclShapes, 2)}}

FileNames == <<"q1.sql.go", "q2.sql.go", "q3.sql.go", "q4.sql.go">>

\* what a file of a batch holds for add-nosec and for qualify-models
BatchText(c) ==
    IF c = "add-nosec" THEN TwoConsts
    ELSE GoText(<<>>, FALSE, <<ExprItem(<<>>, <<"User">>)>>, 0, <<>>)

\* Both commands on a directory of MaxFiles files of which the pattern
\* matches the first n, each matched file being in order, or not valid Go,
\* or not writable, or failing when written; run MaxRuns times.
BatchScenarios ==
    {Scenario(c,
              IF c = "add-nosec" THEN NosecArgs(<<"a">>, <<>>, <<"/", "d">>)
              ELSE QualifyArgs(ModelsPath),
              [BaseEnv EXCEPT !.matches  = SubSeq(FileNames, 1, Len(st)),
                              !.readonly = {FileNames[i] : i \in {j \in 1..Len(st) : st[j] = "readonly"}},
                              !.wfail    = {FileNames[i] : i \in {j \in 1..Len(st) : st[j] = "wfail"}},
                              !.fixed    = BatchText(c),
                              !.runs     = MaxRuns],
              [f \in {FileNames[i] : i \in 1..MaxFiles} |->
                  IF \E i \in 1..Len(st) : FileNames[i] = f /\ st[i] = "bad"
                  THEN Bad ELSE BatchText(c)]) :
        c \in {"add-nosec", "qualify-models"},
        st \in SeqsUpTo({"ok", "bad", "readonly", "wfail"}, MaxFiles)}

\* The state at the start of the first Run of scenario s.
\* The directory the directory-walk Run is given, and what may lie under it.
RootDir == <<"d">>

\* filepath.Join of a clean directory and a name
Join(dir, name) == dir \o <<"/">> \o name

DirEntry(name, path) == [name |-> name, path |-> path, isDir |-> TRUE, type |-> "dir"]
FileEntry(name, path, type) == [name |-> name, path |-> path, isDir |-> FALSE, type |-> type]

HiddenDir == Join(RootDir, <<".", "h">>)
VendorDir == Join(RootDir, <<"v", "e", "n", "d", "o", "r">>)

\* What walkDir visits under the root, one group after the other in lexical
\* order: a hidden directory with a Go file, the models file, a file that is
\* not a Go file, a query file, a symbolic link to a Go file, a vendor
\* directory with a Go file, and a directory whose name ends in ".go".
WalkGroups ==
    << <<DirEntry("d/.h", HiddenDir),
         FileEntry("d/.h/a.go", Join(HiddenDir, <<"a", ".", "g", "o">>), "file")>>,
       <<FileEntry("d/m.go", Join(RootDir, <<"m", ".", "g", "o">>), "file")>>,
       <<FileEntry("d/n", Join(RootDir, <<"n">>), "file")>>,
       <<FileEntry("d/q.go", Join(RootDir, <<"q", ".", "g", "o">>), "file")>>,
       <<FileEntry("d/s.go", Join(RootDir, <<"s", ".", "g", "o">>), "symlink")>>,
       <<DirEntry("d/vendor", VendorDir),
         FileEntry("d/vendor/a.go", Join(VendorDir, <<"a", ".", "g", "o">>), "file")>>,
       <<DirEntry("d/x.go", Join(RootDir, <<"x", ".", "g", "o">>))>> >>

\* the entries of the groups in S, in the order of the walk, from group i on
RECURSIVE WalkEntries(_, _)
WalkEntries(S, i) ==
    IF i > Len(WalkGroups) THEN <<>>
    ELSE (IF i \in S THEN WalkGroups[i] ELSE <<>>) \o WalkEntries(S, i + 1)

\* the models file as modelPath may spell it
ModelPaths ==
    {<<"d", "/", "m", ".", "g", "o">>,
     <<".", "/", "d", "/", "m", ".", "g", "o">>,
     <<"/", "w", "/", "d", "/", "m", ".", "g", "o">>}

WalkArgs(modelPath) ==
    [modelPath |-> modelPath, rootDbDir |-> RootDir, modelImport |-> ModelsPath]

\* "var u User" in a query file; "type User ..." in the models file
WalkText(name) ==
    IF name = "d/n" THEN Bad
    ELSE IF name = "d/m.go"
         THEN [GoText(<<>>, FALSE, <<NameItem("User")>>, 0, <<>>) EXCEPT !.pkg = "models"]
    ELSE GoText(<<>>, FALSE, <<ExprItem(<<>>, <<"User">>)>>, 0, <<>>)

WalkDisk(entries, bad) ==
    [f \in {entries[i].name : i \in {j \in 1..Len(entries) : ~entries[j].isDir}} |->
        IF f \in bad THEN Bad ELSE WalkText(f)]

\* The directory-walk Run on every choice of what lies under the root, with
\* every spelling of modelPath, and with a models file that declares a struct
\* or none; then on the full directory with a root that cannot be read, and
\* with a query file that is invalid, not writable, or fails while written.
WalkScenarios ==
    {Scenario("qualify-models-walk", WalkArgs(mp),
              [BaseEnv EXCEPT !.entries = <<DirEntry("d", RootDir)>> \o WalkEntries(S, 1),
                              !.modelFile = m],
              WalkDisk(WalkEntries(S, 1), {})) :
        S \in SUBSET (1..Len(WalkGroups)), mp \in ModelPaths,
        m \in {ModelsGo, [k |-> "go", decls |-> <<TypeDecl("User", "int", FALSE, TRUE)>>]}}
    \cup
    {Scenario("qualify-models-walk", WalkArgs(<<"d", "/", "m", ".", "g", "o">>),
              [BaseEnv EXCEPT !.entries = <<DirEntry("d", RootDir)>> \o WalkEntries({2, 4, 5}, 1),
                              !.rootOk = st # "noroot",
                              !.readonly = IF st = "readonly" THEN {"d/q.go"} ELSE {},
                              !.wfail = IF st = "wfail" THEN {"d/q.go"} ELSE {}],
              WalkDisk(WalkEntries({2, 4, 5}, 1), IF st = "bad" THEN {"d/q.go"} ELSE {})) :
        st \in {"noroot", "bad", "readonly", "wfail"}}

Start(s) ==
    /\ cmd = s.cmd
    /\ args = s.args
    /\ env = s.env
    /\ fs = s.fs
    /\ pc = "start"
    /\ ret = "running"
    /\ cause = ""
    /\ modelNames = {}
    /\ pkgAlias = ""
    /\ targetMap = {}
    /\ files = <<>>
    /\ idx = 0
    /\ tree = NoTree
    /\ handles = <<>>
    /\ csvOpened = {}
    /\ run = 1
    /\ hist = <<[ret |-> "start", fs |-> s.fs]>>

Init ==
    \/ \E s \in StringScenarios : Start(s)
    \/ \E s \in PathScenarios : Start(s)
    \/ \E s \in ArgScenarios : Start(s)
    \/ \E s \in SpecScenarios : Start(s)
    \/ \E s \in ItemScenarios : Start(s)
    \/ \E s \in ImportScenarios : Start(s)
    \/ \E s \in ModelScenarios : Start(s)
    \/ \E s \in BatchScenarios : Start(s)
    \/ \E s \in WalkScenarios : Start(s)

Spec == Init /\ [][Next]_vars

----------------------------------------------------------------------------
(* Properties.                                                             *)

\* What the first Run started from, and what the n-th finished Run left.
Orig == hist[1].fs

\* The invocation is one of the two Runs that select their files by pattern.
GlobRun == cmd \in {"qualify-models", "add-nosec"}
Finished(n) == Len(hist) >= n + 1
After(n) == hist[n + 1]

\* The maximal stretches of s that hold no separator, each without the white
\* space around it, the empty ones left out: stated on positions of s.
TrimmedEntries(s, seps) ==
    {SubSeq(s, a, b) : <<a, b>> \in
        {ab \in (1..Len(s)) \X (1..Len(s)) :
            /\ ab[1] <= ab[2]
            /\ \A k \in ab[1]..ab[2] : s[k] \notin seps
            /\ ~IsSpace(s[ab[1]])
            /\ ~IsSpace(s[ab[2]])
            /\ \E i \in 1..ab[1] :
                  /\ i = 1 \/ s[i - 1] \in seps
                  /\ \A k \in i..(ab[1] - 1) : IsSpace(s[k]) /\ s[k] \notin seps
            /\ \E j \in ab[2]..Len(s) :
                  /\ j = Len(s) \/ s[j + 1] \in seps
                  /\ \A k \in (ab[2] + 1)..j : IsSpace(s[k]) /\ s[k] \notin seps}}

InlineMode == cmd = "add-nosec" /\ args.csvPath = <<>> /\ args.targets # <<>>
CsvMode    == cmd = "add-nosec" /\ args.csvPath # <<>> /\ args.targets = <<>>

\* C1 (qualifier idempotence): when qualify-models has run twice in a row
\* with the same arguments and both runs returned nil, the second run left
\* every file exactly as the first run had left it: no identifier was
\* replaced again and no import was added again.
QualifierIdempotent ==
    (cmd = "qualify-models" /\ Finished(2) /\ After(1).ret = "nil" /\ After(2).ret = "nil")
        => After(2).fs = After(1).fs

\* C1 case: two finished runs, the first of which replaced an identifier
\* and added the import.
QualifierIdempotentCase ==
    /\ cmd = "qualify-models" /\ Finished(2)
    /\ After(1).ret = "nil" /\ After(2).ret = "nil"
    /\ Orig[File1].k = "go"
    /\ \E i \in 1..Len(Orig[File1].items) :
          After(1).fs[File1].items[i] # Orig[File1].items[i]
    /\ Len(After(1).fs[File1].imports) > Len(Orig[File1].imports)

Traversed == cmd = "qualify-models" /\ pc = "create"
Source == fs[files[idx]]

\* The text of an item with its bare identifier (the one that stands first,
\* with no qualifier before it) written as alias.Name when it names a model.
Qualified(o) ==
    IF o.inner = <<>>
    THEN IF Head(o.outer) \in modelNames
         THEN [o EXCEPT !.outer = <<pkgAlias, Head(o.outer)>> \o Tail(o.outer)]
         ELSE o
    ELSE IF Head(o.inner) \in modelNames
         THEN [o EXCEPT !.inner = <<pkgAlias, Head(o.inner)>> \o Tail(o.inner)]
         ELSE o

\* C3 (qualifier completeness), as stated: once the qualifier has traversed
\* a file, every bare identifier that names a model and stands in an
\* expression place reads alias.Name, alias being the last segment of the
\* models import path, and nothing else has changed.
QualifierComplete ==
    Traversed =>
        /\ pkgAlias = pathBase(args.modelImport)
        /\ \A i \in 1..Len(Source.items) :
              Source.items[i].slot = "expr"
                  => PrintItem(tree.Items[i]) = Qualified(Source.items[i])

\* alias.Name, alone or in parentheses
IsNamespaced(o) ==
    /\ o.slot = "expr"
    /\ \/ o.inner = <<>> /\ Len(o.outer) = 2
          /\ o.outer[1] = pkgAlias /\ o.outer[2] \in modelNames
       \/ Len(o.inner) = 2 /\ o.inner[1] = pkgAlias /\ o.inner[2] \in modelNames

\* alias.alias.Name somewhere in a chain
DoublyQualifiedChain(c) ==
    \E j \in 1..Len(c) :
        j + 2 <= Len(c) /\ c[j] = pkgAlias /\ c[j + 1] = pkgAlias /\ c[j + 2] \in modelNames

DoublyQualified(o) == DoublyQualifiedChain(o.inner) \/ DoublyQualifiedChain(o.outer)

\* C4 (non-interference): once the qualifier has traversed a file, every
\* reference that read alias.Name before reads the same, and no reference
\* reads alias.alias.Name unless it did before.
NamespacedUntouched ==
    Traversed =>
        \A i \in 1..Len(Source.items) :
            LET o == Source.items[i]
                n == PrintItem(tree.Items[i])
            IN  /\ IsNamespaced(o) => n = o
                /\ DoublyQualified(n) => DoublyQualified(o)

\* C4 case: a traversed file that held alias.Name and also a bare model
\* name, which was replaced.
NamespacedUntouchedCase ==
    /\ Traversed
    /\ \E i \in 1..Len(Source.items) : IsNamespaced(Source.items[i])
    /\ \E i \in 1..Len(Source.items) : PrintItem(tree.Items[i]) # Source.items[i]

\* How many import specs of the list name this path / name it without a name.
ImportsOf(imports, path) == Cardinality({i \in 1..Len(imports) : imports[i].path = path})
UnnamedImportsOf(imports, path) ==
    Cardinality({i \in 1..Len(imports) : imports[i].path = path /\ imports[i].name = ""})

Distinct(seq) == \A i, j \in 1..Len(seq) : seq[i] = seq[j] => i = j

\* C5 (import presence and uniqueness), as stated: after a successful run
\* the file's import list holds the models import path exactly once.
ImportOnce ==
    (cmd = "qualify-models" /\ Finished(1) /\ After(1).ret = "nil"
        /\ File1 \in Range(env.matches)
        /\ After(1).fs[File1].k = "go" /\ ~isSQLCModern(env))
        => ImportsOf(After(1).fs[File1].imports, args.modelImport) = 1

\* C5, amended: after a successful run over a file whose import specs are
\* pairwise different, the import list holds exactly one import of the
\* models path that has no explicit name, and besides it exactly the specs
\* it held before: the import is added when no unnamed import of the path
\* was there, also when the path was imported under a name and also when no
\* identifier was replaced.
UnnamedImportOnce ==
    (cmd = "qualify-models" /\ Finished(1) /\ After(1).ret = "nil"
        /\ File1 \in Range(env.matches)
        /\ Orig[File1].k = "go" /\ ~isSQLCModern(env) /\ Distinct(Orig[File1].imports))
        => LET new == After(1).fs[File1].imports
               old == Orig[File1].imports
           IN  /\ UnnamedImportsOf(new, args.modelImport) = 1
               /\ Range(new) = Range(old) \cup {[name |-> "", path |-> args.modelImport]}
               /\ Distinct(new)

\* C5 case: a successful run over a file that imported the models path
\* under a name, and in which no identifier was replaced.
UnnamedImportOnceCase ==
    /\ cmd = "qualify-models" /\ Finished(1) /\ After(1).ret = "nil"
    /\ Orig[File1].k = "go" /\ ~isSQLCModern(env)
    /\ After(1).fs[File1].items = Orig[File1].items
    /\ \E i \in 1..Len(Orig[File1].imports) :
          Orig[File1].imports[i].path = args.modelImport /\ Orig[File1].imports[i].name # ""
    /\ UnnamedImportsOf(Orig[File1].imports, args.modelImport) = 0

ErrBoth   == "cannot specify both targets and csvPath"
ErrEither == "must specify either targets or csvPath"

\* C6 (mutual exclusivity): an add-nosec run given both an inline list and
\* a CSV path ends with "cannot specify both targets and csvPath", a run
\* given neither ends with "must specify either targets or csvPath", and in
\* both cases nothing was resolved, matched or written; a run given exactly
\* one of the two ends with neither error.
MutuallyExclusive ==
    (cmd = "add-nosec" /\ pc # "start") =>
        LET both    == args.targets # <<>> /\ args.csvPath # <<>>
            neither == args.targets = <<>> /\ args.csvPath = <<>>
            stopped == /\ pc = "done" /\ targetMap = {} /\ files = <<>>
                       /\ csvOpened = {} /\ fs = Orig
        IN  /\ both => (ret = ErrBoth /\ stopped)
            /\ neither => (ret = ErrEither /\ stopped)
            /\ (~both /\ ~neither) => ret \notin {ErrBoth, ErrEither}

\* C6 case: a run given both sources has ended.
MutuallyExclusiveCase ==
    /\ cmd = "add-nosec" /\ pc = "done"
    /\ args.targets # <<>> /\ args.csvPath # <<>>
    /\ ret = ErrBoth

\* The directory the components of base name contains the file the
\* components of p name.
RECURSIVE IsPrefixComps(_, _)
IsPrefixComps(base, p) ==
    \/ base = <<>>
    \/ p # <<>> /\ Head(base) = Head(p) /\ IsPrefixComps(Tail(base), Tail(p))

Contained(p, base) == IsPrefixComps(AbsComps(base, env.cwd), AbsComps(p, env.cwd))

\* C7 (path containment), as stated: a CSV file is opened only when its resolved
\* path lies inside the allowed base directory; for a path that resolves
\* outside it the run ends with the path-violation error and no file was
\* opened.
Sandboxed ==
    CsvMode =>
        /\ \A p \in csvOpened : Contained(p, args.allowedBaseDir)
        /\ (pc \notin {"start", "resolve"} /\ env.cwdOk
              /\ ~Contained(args.csvPath, args.allowedBaseDir))
              => (ret = "invalid path: not within the allowed directory" /\ csvOpened = {})

\* C8 (CSV resolution), as stated: after a CSV file was read, the Target Set
\* is the set of the trimmed, non-empty fields of its rows.
CsvTargetsTrimmed ==
    (CsvMode /\ pc = "glob") => targetMap = TrimmedEntries(env.csvContent, {",", "\n"})

\* C9 (inline resolution): after an inline list was resolved, the Target
\* Set is the set of its comma-separated entries, each without the white
\* space around it and the empty ones left out.
InlineTargetsTrimmed ==
    (InlineMode /\ pc \notin {"start", "resolve"})
        => targetMap = TrimmedEntries(args.targets, {","})

\* C9 case: an inline list with white space around an entry and with an
\* empty entry was resolved.
InlineTargetsTrimmedCase ==
    /\ InlineMode /\ pc = "glob"
    /\ args.targets = <<" ", "a", ",", ",">>
    /\ targetMap = {<<"a">>}

\* C10 (mode equivalence), as stated: a run that reads the list of names
\* from a one-row CSV file builds the Target Set, and leaves the files, as
\* the run given the same list inline does.
ModesEquivalent ==
    (CsvMode /\ pc = "done" /\ ret = "nil" /\ run = 1
        /\ "\n" \notin Range(env.csvContent) /\ Orig[File1].k = "go")
        => /\ targetMap = parseTargets(env.csvContent)
           /\ fs[File1] = FormatGo(Inject(ParseGo(Orig[File1]), parseTargets(env.csvContent)))

\* The injector has traversed the current file: the tree is the annotated
\* one, and the file on disk is still the text that was parsed.
Injected == cmd = "add-nosec" /\ pc = "create"

\* The value spec declares a name of the Target Name Set.
Targeted(spec) == \E j \in 1..Len(spec.names) : Spell(spec.names[j]) \in targetMap

\* The spec bears the marker in a comment attached to it.
BearsMarker(spec) == ContainsMarker(spec.doc) \/ ContainsMarker(spec.trail)

\* C11 (annotation contract): once the injector has traversed a file, every
\* constant declaration that declares a target name and bore no marker has
\* as its trailing comment group the group it had, or a new group if it had
\* none, with one comment "// #nosec" appended.
AnnotationContract ==
    Injected =>
        \A i \in 1..Len(Source.specs) :
            LET o == Source.specs[i]
            IN  (o.tok = "const" /\ Targeted(o) /\ ~BearsMarker(o))
                    => /\ tree.Specs[i].Comment =
                            (IF o.trail = <<>> THEN <<>> ELSE <<o.trail>>) \o << <<Marker>> >>
                       /\ hasNoSec(tree.Specs[i])

\* C11 case: a traversed file with a targeted constant that had a trailing
\* comment without the marker, and one that had no comment.
AnnotationContractCase ==
    /\ Injected
    /\ \E i, j \in 1..Len(Source.specs) :
          /\ Source.specs[i].tok = "const" /\ Targeted(Source.specs[i])
          /\ Source.specs[i].trail = <<"note">>
          /\ Len(tree.Specs[i].Comment) = 2
          /\ Source.specs[j].tok = "const" /\ Targeted(Source.specs[j])
          /\ Source.specs[j].trail = <<>> /\ Source.specs[j].doc = <<>>
          /\ Len(tree.Specs[j].Comment) = 1

\* C12 (no duplicate marker), as stated: once the injector has traversed a
\* file, a targeted declaration that bore the marker in its documentation
\* comment or in its trailing comment is as it was parsed: no marker comment
\* has been attached to it.
NoDuplicateMarker ==
    Injected =>
        \A i \in 1..Len(Source.specs) :
            (Targeted(Source.specs[i]) /\ BearsMarker(Source.specs[i]))
                => tree.Specs[i] = ParseSpec(Source.specs[i])

\* C13 (serializer atomicity), as stated: whenever a Run has ended, with nil
\* or with any error, every file holds what it held at the start or a
\* complete rendered Go text; none is empty or cut short.
SerializerAtomic ==
    pc = "done" =>
        \A f \in DOMAIN fs : fs[f] = Orig[f] \/ (fs[f].k = "go" /\ fs[f] # Empty)

\* What a Run writes to a file that holds text t.
Rewritten(t) ==
    FormatGo(IF cmd = "add-nosec"
             THEN Inject(ParseGo(t), targetMap)
             ELSE AddImport(Qualify(ParseGo(t), modelNames, pkgAlias).file,
                            args.modelImport))

\* The step that fails on file f in the first Run, or "".
FailureOf(f) ==
    IF Orig[f].k # "go" THEN "failed to parse file"
    ELSE IF f \in env.readonly THEN "failed to open file for writing"
    ELSE IF f \in env.wfail THEN "failed to write file"
    ELSE ""

\* C14 (fail-fast): in the first Run the files are handled one at a time in
\* the order of the selection: the files before the current one hold their
\* rewritten content, the files after it hold what they held at the start
\* and none of them is open; and when a step fails on some file, the Run
\* ends at the first such file with that step's error.
FailFast ==
    (GlobRun /\ run = 1 /\ files # <<>>) =>
        /\ idx \in 1..(Len(files) + 1)
        /\ \A j \in 1..Len(files) :
              /\ j < idx => (/\ Orig[files[j]].k = "go"
                             /\ fs[files[j]] = Rewritten(Orig[files[j]]))
              /\ j > idx => (fs[files[j]] = Orig[files[j]] /\ files[j] \notin Range(handles))
        /\ \A k \in 1..Len(files) :
              (/\ pc = "done" /\ ret # "panic"
               /\ FailureOf(files[k]) # ""
               /\ \A j \in 1..(k - 1) : FailureOf(files[j]) = "")
                  => (ret = FailureOf(files[k]) /\ idx = k)

\* C14 case: the first Run has ended on the second of three files, which
\* could not be opened for writing.
FailFastCase ==
    /\ run = 1 /\ pc = "done" /\ Len(files) = 3 /\ idx = 2
    /\ ret = "failed to open file for writing"
    /\ fs[files[1]] # Orig[files[1]]
    /\ fs[files[3]] = Orig[files[3]]

\* What one uninterrupted Run of the command writes to a file holding t.
OneRun(t) ==
    FormatGo(IF cmd = "add-nosec"
             THEN Inject(ParseGo(t), parseTargets(args.targets))
             ELSE AddImport(Qualify(ParseGo(t), extractModelNames(env.modelFile.decls),
                                    pathBase(args.modelImport)).file,
                            args.modelImport))

\* The first Run failed on a file and what made it fail has been removed.
Repaired ==
    /\ Finished(1)
    /\ After(1).ret \in {"failed to parse file", "failed to open file for writing",
                         "failed to write file"}
    /\ env.readonly = {} /\ env.wfail = {}
    /\ \A f \in DOMAIN fs : fs[f] # Bad

\* C15 (retry safety), as stated: when the first Run failed on a file, the
\* cause was removed and the command was run again, the second Run returned
\* nil and every selected file holds what one uninterrupted Run would have
\* written from the original file (corrected, if it was invalid).
RetrySafe ==
    (Repaired /\ Finished(2) /\ (InlineMode \/ cmd = "qualify-models"))
        => /\ After(2).ret = "nil"
           /\ \A i \in 1..Len(env.matches) :
                 LET f == env.matches[i]
                 IN  After(2).fs[f] = OneRun(IF Orig[f].k = "go" THEN Orig[f] ELSE env.fixed)

\* The models file has been read: the Model Name Set is built.
Extracted == cmd = "qualify-models" /\ pc \in {"glob", "parse", "apply", "create", "format"}

ModelDecls == env.modelFile.decls

\* C16 (model name extractor), as stated: the Model Name Set is the set of
\* the names of the top-level type declarations whose type is a struct and
\* that are not aliases.
ExtractorNoAlias ==
    Extracted =>
        \A n \in QNames :
            n \in modelNames <=>
                \E i \in 1..Len(ModelDecls) :
                    /\ ModelDecls[i].name = n /\ ModelDecls[i].tok = "type"
                    /\ ModelDecls[i].top /\ ModelDecls[i].type = "struct"
                    /\ ~ModelDecls[i].alias

\* C16, amended: the Model Name Set is the set of the names of the
\* top-level type declarations whose type expression is a struct type,
\* written as a definition or as an alias declaration "type A = struct{}";
\* a name declared only as an interface, as a type based on a named type,
\* as an alias of a named type, inside a function or as a variable is not a
\* member.
ExtractorStructTypes ==
    Extracted =>
        /\ modelNames \subseteq {ModelDecls[i].name : i \in 1..Len(ModelDecls)}
        /\ \A i \in 1..Len(ModelDecls) :
              (ModelDecls[i].tok = "type" /\ ModelDecls[i].top /\ ModelDecls[i].type = "struct")
                  => ModelDecls[i].name \in modelNames
        /\ \A n \in modelNames :
              ~ \A i \in 1..Len(ModelDecls) :
                    ModelDecls[i].name = n =>
                        \/ ModelDecls[i].tok # "type"
                        \/ ~ModelDecls[i].top
                        \/ ModelDecls[i].type \in {"interface", "ident"}

\* C16 case: a models file with a struct type and an interface type has
\* been read.
ExtractorStructTypesCase ==
    /\ Extracted
    /\ Len(ModelDecls) = 2
    /\ ModelDecls[1] = TypeDecl("User", "struct", FALSE, TRUE)
    /\ ModelDecls[2] = TypeDecl("models", "interface", FALSE, TRUE)
    /\ modelNames = {"User"}

\* sqlc.yaml sets both keys of native qualification.
NativeQualification ==
    /\ env.sqlcYaml.readable /\ env.sqlcYaml.valid
    /\ env.sqlcYaml.OutputModelsPackage # ""
    /\ env.sqlcYaml.ModelsPackageImportPath # ""

\* A step before the loop over the files fails in this invocation.
ModelsFileInvalid == cmd = "qualify-models" /\ ~NativeQualification /\ env.modelFile.k # "go"
ConfigInvalid ==
    cmd = "add-nosec" /\ (args.targets = <<>> <=> args.csvPath = <<>>)
ResolutionFails ==
    CsvMode /\ parseTargetsCSV(args.csvPath, args.allowedBaseDir, env).err # ""
SelectionFails ==
    /\ GlobRun
    /\ BadPattern(args.queryGlob) /\ ~(cmd = "qualify-models" /\ NativeQualification)

PreProcessingFails == ModelsFileInvalid \/ ConfigInvalid \/ ResolutionFails \/ SelectionFails

PreProcessingErrors ==
    {"failed to parse model file", ErrBoth, ErrEither, "failed to get absolute path",
     "failed to get absolute base directory",
     "invalid path: not within the allowed directory", "failed to open CSV file",
     "failed to parse CSV file", "failed to glob"}

\* C17 (pre-processing failures): in a first Run whose models file does not
\* parse, whose target configuration is invalid, whose target resolution
\* fails or whose pattern is malformed, no target file is ever parsed,
\* opened for writing or modified, and the Run ends with the error of the
\* failing step.
PreFailureUntouched ==
    (run = 1 /\ PreProcessingFails) =>
        /\ fs = Orig
        /\ tree = NoTree /\ handles = <<>> /\ files = <<>>
        /\ pc \in {"start", "resolve", "glob", "done"}
        /\ pc = "done" => ret \in PreProcessingErrors

\* C17 case: a first Run has ended on a malformed pattern.
PreFailureUntouchedCase ==
    /\ run = 1 /\ pc = "done" /\ ret = "failed to glob"
    /\ env.matches # <<>> /\ fs = Orig

\* C18 (no silent failure): a Run that ended with the error of the parse,
\* selection, open-for-write or render step ended where that step failed,
\* and the error wraps the error the step yielded; a Run that ended with nil
\* (native qualification apart) had a well-formed pattern and a valid models
\* file, and has parsed, opened and rendered every selected file.
NoSilentFailure ==
    (GlobRun /\ pc = "done") =>
        /\ ret = "failed to parse model file"
              => (cause = ParseError /\ env.modelFile.k # "go")
        /\ ret = "failed to glob" => (cause = GlobError /\ BadPattern(args.queryGlob))
        /\ ret = "failed to parse file"
              => (cause = ParseError /\ fs[files[idx]].k # "go")
        /\ ret = "failed to open file for writing"
              => (cause = CreateError /\ files[idx] \in env.readonly)
        /\ ret = "failed to write file"
              => (cause = FormatError /\ files[idx] \in env.wfail)
        /\ (ret = "nil" /\ ~(cmd = "qualify-models" /\ NativeQualification))
              => /\ ~BadPattern(args.queryGlob)
                 /\ cmd = "qualify-models" => env.modelFile.k = "go"
                 /\ files = env.matches
                 /\ idx = Len(files) + 1
                 /\ \A j \in 1..Len(files) :
                       /\ files[j] \notin env.readonly \cup env.wfail
                       /\ fs[files[j]].k = "go" /\ fs[files[j]].lay = "gofmt"

\* C18 case: a Run has ended because rendering the second file failed.
NoSilentFailureCase ==
    /\ pc = "done" /\ ret = "failed to write file" /\ cause = FormatError
    /\ idx = 2 /\ files[2] \in env.wfail

\* C19 (native-qualification skip): when sqlc.yaml sets both
\* output_models_package and models_package_import_path, a qualify-models Run
\* returns nil at once: the models file is not parsed, no file is selected,
\* parsed or opened, and every file is as it was.
NativeSkip ==
    (cmd = "qualify-models" /\ NativeQualification /\ pc # "start") =>
        /\ pc = "done" /\ ret = "nil"
        /\ modelNames = {} /\ pkgAlias = ""
        /\ files = <<>> /\ tree = NoTree /\ handles = <<>>
        /\ fs = Orig

\* C19 case: a Run under native qualification has returned nil although
\* the models file is not valid Go and a file uses a model name.
NativeSkipCase ==
    /\ cmd = "qualify-models" /\ NativeQualification
    /\ pc = "done" /\ ret = "nil"
    /\ env.modelFile.k # "go"
    /\ fs[File1].lay = "raw"

\* C20 (only constants are annotated), as stated: a declaration that is not
\* a constant declaration gains no marker comment, neither in the tree the
\* injector leaves nor in the file a successful Run writes, even when its
\* name is in the Target Name Set.
OnlyConstants ==
    /\ Injected =>
          \A i \in 1..Len(Source.specs) :
              Source.specs[i].tok # "const" => tree.Specs[i] = ParseSpec(Source.specs[i])
    /\ (cmd = "add-nosec" /\ run = 1 /\ pc = "done" /\ ret = "nil") =>
          \A j \in 1..Len(files) :
              \A i \in 1..Len(Orig[files[j]].specs) :
                  Orig[files[j]].specs[i].tok # "const"
                      => fs[files[j]].specs[i].trail = Orig[files[j]].specs[i].trail

\* The directory-walk Run has chosen its files.
Walked == cmd = "qualify-models-walk" /\ pc \in {"wparse", "wapply", "wwrite"}

\* The names of the directories between the root and the entry d.
DirsAbove(d) ==
    LET comps == Split(d.path, "/")
    IN  {comps[i] : i \in (Len(Split(RootDir, "/")) + 1)..(Len(comps) - 1)}

\* The entry lies under a vendor directory or under a hidden one.
UnderSkippedDir(d) ==
    \E c \in DirsAbove(d) : c = <<"v", "e", "n", "d", "o", "r">> \/ Head(c) = "."

\* The entry is the models file, however modelPath spells it.
IsModelsFile(d) == d.name = "d/m.go"

\* C21: the directory-walk Run selects exactly the regular files under the
\* root whose name ends in ".go", without the models file and without the
\* files under a vendor or a hidden directory, and the models file is never
\* rewritten.
WalkSelection ==
    /\ Walked =>
          Range(files) =
             {d.name : d \in {e \in Range(env.entries) :
                                 /\ e.type = "file"
                                 /\ HasSuffix(e.path, <<".", "g", "o">>)
                                 /\ ~IsModelsFile(e)
                                 /\ ~UnderSkippedDir(e)}}
    /\ (cmd = "qualify-models-walk" /\ "d/m.go" \in DOMAIN fs) =>
          fs["d/m.go"] = Orig["d/m.go"]

\* C22: the qualifier raises no failure of its own: on every valid target
\* file and every set of model names the traversal completes without a
\* crash, also when a model name stands where only a plain identifier may
\* stand (a declared type, function, field or package name).
QualifierNeverCrashes ==
    cmd = "qualify-models" => ret # "panic"

\* A first add-nosec Run has ended with nil.
InjectedAll == cmd = "add-nosec" /\ run = 1 /\ pc = "done" /\ ret = "nil"

\* C23: when a target file that holds other comments has been annotated and
\* written, each declaration the injector annotated carries the marker
\* comment in the written text, right after the declaration.
MarkerRendered ==
    InjectedAll =>
        \A j \in 1..Len(files) :
            LET o == Orig[files[j]]
                w == fs[files[j]]
            IN  ParseGo(o).Comments > 0 =>
                    \A i \in 1..Len(o.specs) :
                        (Targeted(o.specs[i]) /\ ~ContainsMarker(o.specs[i].trail))
                            => /\ w.specs[i].trail # <<>>
                               /\ w.specs[i].trail[Len(w.specs[i].trail)] = Marker

\* The declared names of the spec that are in the Target Name Set.
TargetedNames(spec) == {j \in 1..Len(spec.names) : Spell(spec.names[j]) \in targetMap}

\* C24 as stated: once the injector has traversed a file, a declaration
\* without marker has got one marker comment for each of its declared names
\* that is in the target set, all in its one trailing comment group.
MarkerPerName ==
    Injected =>
        \A i \in 1..Len(Source.specs) :
            LET o == Source.specs[i]
            IN  ~ContainsMarker(o.trail) =>
                    /\ Len(tree.Specs[i].Comment) =
                          Len(ParseSpec(o).Comment) + Cardinality(TargetedNames(o))
                    /\ \A n \in (Len(ParseSpec(o).Comment) + 1)..Len(tree.Specs[i].Comment) :
                          tree.Specs[i].Comment[n] = <<Marker>>

\* C24: once the injector has traversed a file, a declaration whose trailing
\* group held no marker has got exactly one marker comment if at least one
\* of its declared names is in the target set, however many of them are,
\* and none otherwise; the marker is the last comment of the declaration's
\* one trailing comment group.
MarkerOncePerSpec ==
    Injected =>
        \A i \in 1..Len(Source.specs) :
            LET o == Source.specs[i]
            IN  ~ContainsMarker(o.trail) =>
                    tree.Specs[i].Comment =
                        ParseSpec(o).Comment \o
                        (IF TargetedNames(o) # {} THEN << <<Marker>> >> ELSE <<>>)

\* C24 case: a traversed file with a declaration of two names, both in the
\* target set, that has got one marker.
MarkerOncePerSpecCase ==
    /\ Injected
    /\ \E i \in 1..Len(Source.specs) :
          /\ Cardinality(TargetedNames(Source.specs[i])) = 2
          /\ Source.specs[i].trail = <<>>
          /\ tree.Specs[i].Comment = << <<Marker>> >>

\* Node n stands where node o stood and differs from it at most in that
\* identifiers of o that name a model have become the selector alias.Name,
\* each of them once: the qualifier of such a selector is the plain alias.
RECURSIVE LocalImage(_, _)
LocalImage(o, n) ==
    CASE o.k = "Ident" ->
            \/ n = o
            \/ o.Name \in modelNames /\ n = SelectorExpr(Ident(pkgAlias), o.Name)
      [] o.k = "ParenExpr" -> n.k = "ParenExpr" /\ LocalImage(o.X, n.X)
      [] o.k = "SelectorExpr" ->
            n.k = "SelectorExpr" /\ n.Sel = o.Sel /\ LocalImage(o.X, n.X)

\* C25 (replacement is local and terminating): once the qualifier has
\* traversed a file, the traversal has ended with every place of the tree
\* holding what it held or the selector put there for the one identifier it
\* held; the selector put in place has not been traversed, so its qualifier
\* is the plain alias even when the alias names a model; and what a place
\* holds depends on what it held alone, not on when it was visited: two
\* places that held the same hold the same.
ReplacementLocal ==
    Traversed =>
        /\ Len(tree.Items) = Len(Source.items)
        /\ \A i \in 1..Len(Source.items) :
              LocalImage(ParseItem(Source.items[i]).node, tree.Items[i].node)
        /\ \A i, j \in 1..Len(Source.items) :
              Source.items[i] = Source.items[j] => tree.Items[i] = tree.Items[j]

\* C25 case: the alias is itself a model name, and a traversed file held a
\* bare model name that now reads alias.Name.
ReplacementLocalCase ==
    /\ Traversed
    /\ pkgAlias \in modelNames
    /\ \E i \in 1..Len(Source.items) :
          /\ Source.items[i] = ExprItem(<<>>, <<"User">>)
          /\ tree.Items[i].node = SelectorExpr(Ident(pkgAlias), "User")

\* C26: in the two Runs that select by pattern, each file opened for
\* writing is closed before the next file is handled: at most one output
\* handle is open at any time, none while a file is parsed or traversed, and
\* none once Run has returned.
OneHandleAtATime ==
    GlobRun =>
        /\ Len(handles) <= 1
        /\ pc \in {"parse", "apply", "create"} => handles = <<>>
        /\ pc = "done" => handles = <<>>

\* The selector expressions of node o and of node n pair up: n holds a
\* selector wherever o holds one, with the same selected name, and where the
\* qualifier of the selector of o is an identifier, the same identifier.
RECURSIVE SelectorsKept(_, _)
SelectorsKept(o, n) ==
    CASE o.k = "Ident" -> TRUE
      [] o.k = "ParenExpr" -> n.k = "ParenExpr" /\ SelectorsKept(o.X, n.X)
      [] o.k = "SelectorExpr" ->
            /\ n.k = "SelectorExpr"
            /\ n.Sel = o.Sel
            /\ IF o.X.k = "Ident" THEN n.X = o.X ELSE SelectorsKept(o.X, n.X)

\* There is a selector in the node whose qualifier or selected name is an
\* identifier that names a model.
RECURSIVE HasModelUnderSelector(_)
HasModelUnderSelector(o) ==
    CASE o.k = "Ident" -> FALSE
      [] o.k = "ParenExpr" -> HasModelUnderSelector(o.X)
      [] o.k = "SelectorExpr" ->
            \/ o.Sel \in modelNames
            \/ o.X.k = "Ident" /\ o.X.Name \in modelNames
            \/ HasModelUnderSelector(o.X)

\* C27: once the qualifier has traversed a file, every identifier whose
\* parent was a selector expression, the qualifier of the selector or its
\* selected name, whatever the qualifier is, stands as it stood, also when
\* its name is a model name.
SelectorChildrenKept ==
    Traversed =>
        \A i \in 1..Len(Source.items) :
            SelectorsKept(ParseItem(Source.items[i]).node, tree.Items[i].node)

\* C27 case: a traversed file that held User.User, both names of which name
\* a model and stand as they stood, and a bare User, which was replaced.
SelectorChildrenKeptCase ==
    /\ Traversed
    /\ "User" \in modelNames
    /\ \E i, j \in 1..Len(Source.items) :
          /\ Source.items[i] = ExprItem(<<>>, <<"User", "User">>)
          /\ tree.Items[i] = ParseItem(Source.items[i])
          /\ Source.items[j] = ExprItem(<<>>, <<"User">>)
          /\ tree.Items[j] # ParseItem(Source.items[j])

FailedFileUntouched ==
    (run = 1 /\ pc = "done") =>
        /\ (GlobRun /\ ret \in {"failed to parse file", "failed to open file for writing"})
              => fs[files[idx]] = Orig[files[idx]]
        /\ (cmd = "qualify-models-walk"
            /\ \/ ret = "failed to parse query file"
               \/ ret = "failed to write updated file"
                  /\ cause = "failed to open file for writing")
              => fs[files[idx]] = Orig[files[idx]]

\* C29 case: a first Run has rewritten its first file and has ended on the
\* second, a valid file that could not be opened for writing.
FailedFileUntouchedCase ==
    /\ GlobRun /\ run = 1 /\ pc = "done" /\ ret = "failed to open file for writing"
    /\ idx = 2 /\ fs[files[1]] # Orig[files[1]]
    /\ fs[files[2]] = Orig[files[2]] /\ fs[files[2]].k = "go"

\* The selection of this invocation is empty.
EmptySelection ==
    IF GlobRun THEN env.matches = <<>>
    ELSE WalkFiles(env.entries, args.modelPath) = <<>>

\* The steps before the selection and the selection itself succeed.
SelectionSucceeds ==
    IF GlobRun THEN ~PreProcessingFails
    ELSE env.modelFile.k = "go" /\ env.rootOk

\* C30 (empty selection): when the steps before the loop succeed and the
\* selection holds no file, the first Run passes from the selection straight
\* to its end and returns nil: no file is parsed, none is opened for
\* writing, and every file is as it was.
EmptySelectionNil ==
    (run = 1 /\ EmptySelection /\ SelectionSucceeds) =>
        /\ pc \in {"start", "resolve", "glob", "walk", "done"}
        /\ pc = "done" => ret = "nil"
        /\ fs = Orig
        /\ files = <<>> /\ tree = NoTree /\ handles = <<>>

\* C30 case: an add-nosec Run that resolved its targets and found no file
\* has returned nil.
EmptySelectionNilCase ==
    /\ cmd = "add-nosec" /\ run = 1 /\ pc = "done" /\ ret = "nil"
    /\ env.matches = <<>> /\ targetMap # {} /\ idx = 1
    /\ fs = Orig

====
